---- MODULE Spec2Model ----
(***************************************************************************)
(* A model of simple_term_menu.py: the command line entry point main(),    *)
(* the construction of a TerminalMenu (style validation, the terminal      *)
(* capability maps), and one session of TerminalMenu.show(): entering the  *)
(* terminal's raw mode, the key loop, the clean-up and the result.         *)
(*                                                                         *)
(* Python values are represented as follows.                               *)
(*   - a str that holds terminal data (an escape sequence, a chunk read    *)
(*     from the terminal) is the sequence of its code points;              *)
(*   - a str that is a codename or a dictionary key is a TLA+ string;      *)
(*   - Optional[x] is <<>> for None and <<x>> otherwise;                   *)
(*   - the termios attribute list is represented by its local-flag word    *)
(*     (index 3), a set of flag names; the other entries are never         *)
(*     changed by the program.                                             *)
(***************************************************************************)
EXTENDS Integers, Sequences, FiniteSets, TLC

VARIABLES
    via,                        \* "main": run through main(); "lib": a caller constructs the menu and calls show()
    args,                       \* the command line (via main) or the constructor arguments (via lib)
    term,                       \* the terminal type the capability database is asked about
    term_attr,                  \* the terminal device's attribute configuration (its local flags)
    codename_to_terminal_code,  \* class attribute, None until built
    terminal_code_to_codename,  \* class attribute, None until built
    menu,                       \* the TerminalMenu object, None until constructed
    pc,                         \* the statement the process is about to execute
    selected_index,             \* show()'s local variable
    next_key,                   \* show()'s local variable
    exc,                        \* the exception pending or propagating, "none" if none
    result,                     \* what show() returned
    exit_code,                  \* the process's exit status as its parent observes it
    tput_calls,                 \* how many times the latest construction ran tput
    stdout_buffer,              \* sys.stdout: what was written and not yet passed on to the terminal
    screen,                     \* the terminal's display: the cursor and what the rows show
    \* history variables: they record what happened, the program does not read them
    raw_entered,                \* line 139 has applied the modified attributes
    reset_runs,                 \* how many times _reset_term was called
    clear_runs,                 \* how many times clear_menu was called
    intr_active,                \* an interrupt arrived after raw mode was entered and before show() ended
    show_outcome,               \* how show() ended: "returned" or "raised", "none" before
    ended_by,                   \* the event that ended the key loop
    index_before                \* the index immediately before the key last dispatched or, once the
                                \* loop has ended, before the event that ended it

vars == <<via, args, term, term_attr, codename_to_terminal_code, terminal_code_to_codename,
          menu, pc, selected_index, next_key, exc, result, exit_code, tput_calls,
          stdout_buffer, screen,
          raw_entered, reset_runs, clear_runs, intr_active, show_outcome, ended_by, index_before>>

None == <<>>
Some(x) == <<x>>
Val(o) == o[1]

----------------------------------------------------------------------------
(* Bounds of the model *)

\* The largest number of menu entries of the broad family of runs.
MaxEntries == 3

\* The number of rows of the terminal's display.
ScreenRows == 10

----------------------------------------------------------------------------
(* The codename vocabulary and the capability database *)

\* TerminalMenu._codename_to_capname, in the dictionary's insertion order.
codenames ==
    << "bg_black", "bg_blue", "bg_cyan", "bg_gray", "bg_green", "bg_purple", "bg_red",
       "bg_yellow", "bold", "colors", "cursor_down", "cursor_invisible", "cursor_up",
       "cursor_visible", "delete_line", "down", "enter_application_mode",
       "exit_application_mode", "fg_black", "fg_blue", "fg_cyan", "fg_gray", "fg_green",
       "fg_purple", "fg_red", "fg_yellow", "italics", "reset_attributes", "standout",
       "underline", "up" >>

Range(f) == {f[i] : i \in DOMAIN f}

codename_to_capname ==
    [c \in Range(codenames) |->
        CASE c = "bg_black" -> "setab 0"  [] c = "bg_blue" -> "setab 4"
          [] c = "bg_cyan" -> "setab 6"   [] c = "bg_gray" -> "setab 7"
          [] c = "bg_green" -> "setab 2"  [] c = "bg_purple" -> "setab 5"
          [] c = "bg_red" -> "setab 1"    [] c = "bg_yellow" -> "setab 3"
          [] c = "bold" -> "bold"         [] c = "colors" -> "colors"
          [] c = "cursor_down" -> "cud1"  [] c = "cursor_invisible" -> "civis"
          [] c = "cursor_up" -> "cuu1"    [] c = "cursor_visible" -> "cnorm"
          [] c = "delete_line" -> "dl1"   [] c = "down" -> "kcud1"
          [] c = "enter_application_mode" -> "smkx"
          [] c = "exit_application_mode" -> "rmkx"
          [] c = "fg_black" -> "setaf 0"  [] c = "fg_blue" -> "setaf 4"
          [] c = "fg_cyan" -> "setaf 6"   [] c = "fg_gray" -> "setaf 7"
          [] c = "fg_green" -> "setaf 2"  [] c = "fg_purple" -> "setaf 5"
          [] c = "fg_red" -> "setaf 1"    [] c = "fg_yellow" -> "setaf 3"
          [] c = "italics" -> "sitm"      [] c = "reset_attributes" -> "sgr0"
          [] c = "standout" -> "smso"     [] c = "underline" -> "smul"
          [] c = "up" -> "kcuu1"]

\* The control characters "\012" and "\033".
LF == 10
ESC == 27

\* TerminalMenu._name_to_control_character, in insertion order.
control_names == << "enter", "escape" >>

name_to_control_character ==
    [n \in Range(control_names) |-> IF n = "enter" THEN <<LF>> ELSE <<ESC>>]

\* codename.startswith("bg_") or codename.startswith("fg_"), on the vocabulary.
IsColorCodename(codename) ==
    codename \in { "bg_black", "bg_blue", "bg_cyan", "bg_gray", "bg_green", "bg_purple",
                   "bg_red", "bg_yellow", "fg_black", "fg_blue", "fg_cyan", "fg_gray",
                   "fg_green", "fg_purple", "fg_red", "fg_yellow" }

\* What running "tput <capname>" gives: its return code and its standard output.
\* Return code 0 is success, 1 a capability the terminal lacks, any other a failure.
TputOk(out) == [rc |-> 0, out |-> out]
TputAbsent == [rc |-> 1, out |-> <<>>]
TputFailed == [rc |-> 3, out |-> <<>>]

\* ESC followed by the given code points.
Esc(s) == <<ESC>> \o s

\* The terminal types of the broad family of runs.
Terminals == {"xterm", "vt100", "unknown"}

\* An xterm whose database entry lacks the capability of one codename.
XtermWithout(codename) == "xterm without " \o codename

\* The terminal types of the capability runs: those above, a 256 colour xterm, two
\* terminals without escape sequences ("dumb"; "adm3a", whose Down key sends a line
\* feed), and every xterm that lacks one capability.
CapabilityTerminals ==
    Terminals \cup {"xterm-256color", "dumb", "adm3a"}
              \cup {XtermWithout(c) : c \in Range(codenames)}

\* The database entry of "xterm": an 8 colour terminal with every capability.
XtermEntry(capname) ==
    CASE capname = "setab 0" -> TputOk(Esc(<<91, 52, 48, 109>>))
      [] capname = "setab 1" -> TputOk(Esc(<<91, 52, 49, 109>>))
      [] capname = "setab 2" -> TputOk(Esc(<<91, 52, 50, 109>>))
      [] capname = "setab 3" -> TputOk(Esc(<<91, 52, 51, 109>>))
      [] capname = "setab 4" -> TputOk(Esc(<<91, 52, 52, 109>>))
      [] capname = "setab 5" -> TputOk(Esc(<<91, 52, 53, 109>>))
      [] capname = "setab 6" -> TputOk(Esc(<<91, 52, 54, 109>>))
      [] capname = "setab 7" -> TputOk(Esc(<<91, 52, 55, 109>>))
      [] capname = "setaf 0" -> TputOk(Esc(<<91, 51, 48, 109>>))
      [] capname = "setaf 1" -> TputOk(Esc(<<91, 51, 49, 109>>))
      [] capname = "setaf 2" -> TputOk(Esc(<<91, 51, 50, 109>>))
      [] capname = "setaf 3" -> TputOk(Esc(<<91, 51, 51, 109>>))
      [] capname = "setaf 4" -> TputOk(Esc(<<91, 51, 52, 109>>))
      [] capname = "setaf 5" -> TputOk(Esc(<<91, 51, 53, 109>>))
      [] capname = "setaf 6" -> TputOk(Esc(<<91, 51, 54, 109>>))
      [] capname = "setaf 7" -> TputOk(Esc(<<91, 51, 55, 109>>))
      [] capname = "bold" -> TputOk(Esc(<<91, 49, 109>>))
      [] capname = "colors" -> TputOk(<<56, LF>>)
      [] capname = "cud1" -> TputOk(<<LF>>)
      [] capname = "civis" -> TputOk(Esc(<<91, 63, 50, 53, 108>>))
      [] capname = "cuu1" -> TputOk(Esc(<<91, 65>>))
      [] capname = "cnorm" -> TputOk(Esc(<<91, 63, 50, 53, 104>>))
      [] capname = "dl1" -> TputOk(Esc(<<91, 77>>))
      [] capname = "kcud1" -> TputOk(Esc(<<79, 66>>))
      [] capname = "smkx" -> TputOk(Esc(<<91, 63, 49, 104>>) \o Esc(<<61>>))
      [] capname = "rmkx" -> TputOk(Esc(<<91, 63, 49, 108>>) \o Esc(<<62>>))
      [] capname = "sitm" -> TputOk(Esc(<<91, 51, 109>>))
      [] capname = "sgr0" -> TputOk(Esc(<<40, 66>>) \o Esc(<<91, 109>>))
      [] capname = "smso" -> TputOk(Esc(<<91, 55, 109>>))
      [] capname = "smul" -> TputOk(Esc(<<91, 52, 109>>))
      [] capname = "kcuu1" -> TputOk(Esc(<<79, 65>>))
      [] OTHER -> TputAbsent

\* The capability database, per terminal type.  "vt100": no colours, no italics, no
\* cursor hiding, no delete-line; "dumb": a line feed and nothing else; "adm3a":
\* control characters for the cursor motions and the arrow keys, nothing else;
\* "unknown": a terminal type the database does not hold.  An absent number is
\* printed as -1 by these entries; the xterm that lacks "colors" stands for a tput
\* that reports it with return code 1, as it does every other absent capability.
Tput(t, capname) ==
    IF t = "unknown" THEN TputFailed
    ELSE IF t = "xterm" THEN XtermEntry(capname)
    ELSE IF t = "xterm-256color" THEN
        IF capname = "colors" THEN TputOk(<<50, 53, 54, LF>>) ELSE XtermEntry(capname)
    ELSE IF t = "vt100" THEN
        CASE capname = "bold" -> TputOk(Esc(<<91, 49, 109>>))
          [] capname = "colors" -> TputOk(<<45, 49, LF>>)
          [] capname = "cud1" -> TputOk(<<LF>>)
          [] capname = "cuu1" -> TputOk(Esc(<<91, 65>>))
          [] capname = "kcud1" -> TputOk(Esc(<<79, 66>>))
          [] capname = "smkx" -> TputOk(Esc(<<91, 63, 49, 104>>) \o Esc(<<61>>))
          [] capname = "rmkx" -> TputOk(Esc(<<91, 63, 49, 108>>) \o Esc(<<62>>))
          [] capname = "sgr0" -> TputOk(Esc(<<91, 109, 15>>))
          [] capname = "smso" -> TputOk(Esc(<<91, 55, 109>>))
          [] capname = "smul" -> TputOk(Esc(<<91, 52, 109>>))
          [] capname = "kcuu1" -> TputOk(Esc(<<79, 65>>))
          [] OTHER -> TputAbsent
    ELSE IF t = "dumb" THEN
        CASE capname = "colors" -> TputOk(<<45, 49, LF>>)
          [] capname = "cud1" -> TputOk(<<LF>>)
          [] OTHER -> TputAbsent
    ELSE IF t = "adm3a" THEN
        CASE capname = "colors" -> TputOk(<<45, 49, LF>>)
          [] capname = "cud1" -> TputOk(<<LF>>)
          [] capname = "cuu1" -> TputOk(<<11>>)
          [] capname = "kcud1" -> TputOk(<<LF>>)
          [] capname = "kcuu1" -> TputOk(<<11>>)
          [] OTHER -> TputAbsent
    ELSE IF \E c \in Range(codenames) : t = XtermWithout(c) /\ capname = codename_to_capname[c]
         THEN TputAbsent
         ELSE XtermEntry(capname)

\* _query_terminfo_database: the capability's sequence, "" for a capability the
\* terminal lacks (return code 1), CalledProcessError for any other return code.
\* A codename outside the table is used as the capability name itself.
query_terminfo_database(t, codename) ==
    LET capname == IF codename \in DOMAIN codename_to_capname
                   THEN codename_to_capname[codename] ELSE codename
        r == Tput(t, capname)
    IN  IF r.rc = 0 THEN [raised |-> "none", value |-> r.out]
        ELSE IF r.rc = 1 THEN [raised |-> "none", value |-> <<>>]
        ELSE [raised |-> "CalledProcessError", value |-> <<>>]

\* Python's int() of a str: surrounding whitespace is dropped, then an optional
\* sign and at least one decimal digit are required; anything else is a ValueError.
IsSpace(b) == b \in {9, 10, 11, 12, 13, 32}
IsDigit(b) == b \in 48..57

RECURSIVE LStrip(_)
LStrip(s) == IF s # <<>> /\ IsSpace(Head(s)) THEN LStrip(Tail(s)) ELSE s

RECURSIVE RStrip(_)
RStrip(s) == IF s # <<>> /\ IsSpace(s[Len(s)]) THEN RStrip(SubSeq(s, 1, Len(s) - 1)) ELSE s

RECURSIVE DigitsValue(_)
DigitsValue(s) == IF s = <<>> THEN 0 ELSE 10 * DigitsValue(SubSeq(s, 1, Len(s) - 1)) + (s[Len(s)] - 48)

int(s) ==
    LET t == RStrip(LStrip(s))
        signed == t # <<>> /\ Head(t) \in {43, 45}
        digits == IF signed THEN Tail(t) ELSE t
    IN  IF digits = <<>> \/ \E i \in DOMAIN digits : ~IsDigit(digits[i])
        THEN [raised |-> "ValueError", value |-> 0]
        ELSE [raised |-> "none",
              value |-> IF signed /\ Head(t) = 45 THEN -DigitsValue(digits) ELSE DigitsValue(digits)]

\* map_order with the control characters entered before the capabilities.
map_order_ControlCharactersFirst == control_names \o codenames

\* The dictionary built at lines 97-103: the codenames, then the control characters.
map_order == codenames \o control_names

\* BuildCodenameToTerminalCode with > for >= in the test of line 100.
BuildCodenameToTerminalCode_MoreThanEight(t) ==
    LET supported_colors == int(query_terminfo_database(t, "colors").value).value
    IN  [c \in Range(map_order) |->
            IF c \in Range(control_names) THEN name_to_control_character[c]
            ELSE IF ~IsColorCodename(c) \/ supported_colors > 8
                 THEN query_terminfo_database(t, c).value
                 ELSE <<>>]

BuildCodenameToTerminalCode(t) ==
    LET supported_colors == int(query_terminfo_database(t, "colors").value).value
    IN  [c \in Range(map_order) |->
            IF c \in Range(control_names) THEN name_to_control_character[c]
            ELSE IF ~IsColorCodename(c) \/ supported_colors >= 8
                 THEN query_terminfo_database(t, c).value
                 ELSE <<>>]

\* BuildTerminalCodeToCodename where of several codenames with one sequence the
\* first one stays.
BuildTerminalCodeToCodename_FirstStays(m) ==
    [code \in {m[c] : c \in DOMAIN m} |->
        LET first == CHOOSE i \in DOMAIN map_order :
                         /\ m[map_order[i]] = code
                         /\ \A j \in DOMAIN map_order : m[map_order[j]] = code => i <= j
        IN  map_order[first]]

\* The inverse built at lines 104-106: a dictionary comprehension over the items in
\* insertion order, so that of several codenames with one sequence the last one stays.
BuildTerminalCodeToCodename(m) ==
    [code \in {m[c] : c \in DOMAIN m} |->
        LET last == CHOOSE i \in DOMAIN map_order :
                        /\ m[map_order[i]] = code
                        /\ \A j \in DOMAIN map_order : m[map_order[j]] = code => j <= i
        IN  map_order[last]]

\* TerminalCodesBuilt with the test of line 94 lost.
TerminalCodesBuilt_TestLost(m) == FALSE

\* _init_terminal_codes, lines 94-95: "cls._codename_to_terminal_code is not None".
TerminalCodesBuilt(m) == m # None

\* The exception _init_terminal_codes raises while it builds the maps, "none" if none:
\* a failed query, or a colour count that int() does not accept.
InitTerminalCodesRaises(t) ==
    LET colors == query_terminfo_database(t, "colors")
    IN  IF colors.raised # "none" THEN colors.raised
        ELSE IF int(colors.value).raised # "none" THEN int(colors.value).raised
        ELSE LET supported_colors == int(colors.value).value
                 queried == {c \in Range(codenames) : ~IsColorCodename(c) \/ supported_colors >= 8}
             IN  IF \E c \in queried : query_terminfo_database(t, c).raised # "none"
                 THEN "CalledProcessError" ELSE "none"

\* How many times _init_terminal_codes runs tput while it builds the maps: once for
\* the colour count (line 96), then once per codename that lines 97-103 query, up to
\* the first query that raises.
TputCalls(t) ==
    LET colors == query_terminfo_database(t, "colors")
    IN  IF colors.raised # "none" \/ int(colors.value).raised # "none" THEN 1
        ELSE LET supported_colors == int(colors.value).value
                 queried == SelectSeq(codenames,
                                LAMBDA c : ~IsColorCodename(c) \/ supported_colors >= 8)
                 failing == {i \in DOMAIN queried :
                                query_terminfo_database(t, queried[i]).raised # "none"}
             IN  IF failing = {} THEN 1 + Len(queried)
                 ELSE 1 + CHOOSE i \in failing : \A k \in failing : i <= k

----------------------------------------------------------------------------
(* The output: the text stream sys.stdout and the terminal's display *)

\* A piece of output is the text of one capability, a control character, or a run
\* of printable characters.  A text, the argument of one call of sys.stdout.write, is
\* a sequence of parts, each part a group of pieces with the number of times it is
\* repeated: "n * (a + b) + c" is <<[times |-> n, group |-> <<a, b>>], [times |-> 1,
\* group |-> <<c>>]>>.
CR == 13
Space == 32

\* DEFAULT_MENU_CURSOR, "> "; the text of the title; the text of entry i.
MenuCursor == <<62, Space>>
TitleText == <<84, 105, 116, 108, 101>>
EntryText(i) == <<97 + (i % 26)>>

\* n * " "
Spaces(n) == [i \in 1..n |-> Space]

\* The text of the given pieces, and n times that text (empty for n <= 0, as in
\* Python).
Text(pieces) == << [times |-> 1, group |-> pieces] >>
Times(n, pieces) == IF n > 0 THEN << [times |-> n, group |-> pieces] >> ELSE << >>

\* self._codename_to_terminal_code[codename]
Code(codename) == codename_to_terminal_code[codename]

\* The display before show() starts: the cursor at the left of the top row, no
\* attribute switched on.  Of what the rows show the display records the rows whose
\* cursor column shows the menu cursor and the rows whose entry text, right of the
\* cursor column, is shown with an attribute.
BlankScreen ==
    [row |-> 0, col |-> 0, attrs |-> FALSE, glyph_rows |-> {}, highlighted_rows |-> {}]

\* The rows after n rows are deleted from row at on: the rows below move up.
RowsAfterDelete(rows, at, n) ==
    IF rows = {} THEN rows
    ELSE {r \in rows : r < at} \cup {r - n : r \in {q \in rows : q >= at + n}}

\* The sequences an ANSI terminal (xterm, vt100) understands, as far as the program
\* writes them.
CursorUpSequence == Esc(<<91, 65>>)
DeleteLineSequence == Esc(<<91, 77>>)
ResetSequences == {Esc(<<40, 66>>) \o Esc(<<91, 109>>), Esc(<<91, 109, 15>>)}
SetsAttribute(piece) ==
    /\ Len(piece) > 3
    /\ piece[1] = ESC /\ piece[2] = 91 /\ piece[3] \in 48..57 /\ piece[Len(piece)] = 109

\* What the terminal does with n cursor-up sequences: the cursor stops at the top
\* row.
CursorUp(scr, n) == [scr EXCEPT !.row = IF @ > n THEN @ - n ELSE 0]

\* What the terminal does with n delete-line sequences: each deletes the row of the
\* cursor.
DeleteLines(scr, n) ==
    [scr EXCEPT !.glyph_rows = RowsAfterDelete(@, scr.row, n),
                !.highlighted_rows = RowsAfterDelete(@, scr.row, n)]

\* What the terminal does with one piece.  The terminal driver's output processing
\* (which the program leaves as it is) turns a line feed into carriage return and
\* line feed; a line feed on the bottom row scrolls the display, which deletes the
\* top row.  Printable characters in the cursor column show the menu cursor or wipe
\* it out; right of it they are shown with the attributes that are on.  Mode
\* switches (keypad mode, cursor visibility) show nothing.
Display(scr, piece) ==
    IF piece = << >> THEN scr
    ELSE IF piece[1] >= Space THEN
        IF scr.col < Len(MenuCursor)
        THEN [scr EXCEPT !.col = @ + Len(piece),
                         !.glyph_rows = IF piece = MenuCursor
                                        THEN @ \cup {scr.row} ELSE @ \ {scr.row}]
        ELSE [scr EXCEPT !.col = @ + Len(piece),
                         !.highlighted_rows = IF scr.attrs
                                              THEN @ \cup {scr.row} ELSE @ \ {scr.row}]
    ELSE IF piece = <<CR>> THEN [scr EXCEPT !.col = 0]
    ELSE IF piece = <<LF>> THEN
        IF scr.row < ScreenRows - 1
        THEN [scr EXCEPT !.row = @ + 1, !.col = 0]
        ELSE [scr EXCEPT !.col = 0,
                         !.glyph_rows = RowsAfterDelete(@, 0, 1),
                         !.highlighted_rows = RowsAfterDelete(@, 0, 1)]
    ELSE IF piece = CursorUpSequence THEN CursorUp(scr, 1)
    ELSE IF piece = DeleteLineSequence THEN DeleteLines(scr, 1)
    ELSE IF piece \in ResetSequences THEN [scr EXCEPT !.attrs = FALSE]
    ELSE IF SetsAttribute(piece) THEN [scr EXCEPT !.attrs = TRUE]
    ELSE scr

\* The terminal receives pieces[lo..hi], in order.  (The cursor is never above the
\* top row; the test makes TLC evaluate scr before it goes on, which keeps the
\* evaluation of a long output shallow.)
RECURSIVE DisplayRange(_, _, _, _)
DisplayRange(scr, pieces, lo, hi) ==
    IF scr.row < 0 \/ lo > hi THEN scr
    ELSE IF lo = hi THEN Display(scr, pieces[lo])
    ELSE LET mid == (lo + hi) \div 2
         IN  DisplayRange(DisplayRange(scr, pieces, lo, mid), pieces, mid + 1, hi)

\* The terminal receives the group n times.
RECURSIVE DisplayTimes(_, _, _)
DisplayTimes(scr, group, n) ==
    IF scr.row < 0 \/ n <= 0 THEN scr
    ELSE IF group = <<CursorUpSequence>> THEN CursorUp(scr, n)
    ELSE IF group = <<DeleteLineSequence>> THEN DeleteLines(scr, n)
    ELSE IF n = 1 THEN DisplayRange(scr, group, 1, Len(group))
    ELSE DisplayTimes(DisplayTimes(scr, group, n \div 2), group, n - (n \div 2))

\* The terminal receives the parts text[i..] of a text.
RECURSIVE DisplayText(_, _, _)
DisplayText(scr, text, i) ==
    IF scr.row < 0 \/ i > Len(text) THEN scr
    ELSE DisplayText(DisplayTimes(scr, text[i].group, text[i].times), text, i + 1)

\* sys.stdout on a terminal is a line buffered text stream: write() keeps the text
\* and passes everything kept on to the terminal when the text written holds a line
\* feed or a carriage return.
HoldsLineEnd(text) ==
    \E i \in DOMAIN text : \E k \in DOMAIN text[i].group :
        \E c \in DOMAIN text[i].group[k] : text[i].group[k][c] \in {LF, CR}

\* sys.stdout.flush()
Flush(out) == [buffer |-> << >>, screen |-> DisplayText(out.screen, out.buffer, 1)]

\* sys.stdout.write(text)
Write(out, text) ==
    LET kept == [out EXCEPT !.buffer = @ \o text]
    IN  IF HoldsLineEnd(text) THEN Flush(kept) ELSE kept

\* The calls sys.stdout.write(texts[i]), sys.stdout.write(texts[i + 1]), ...
RECURSIVE WriteAll(_, _, _)
WriteAll(out, texts, i) ==
    IF i > Len(texts) THEN out ELSE WriteAll(Write(out, texts[i]), texts, i + 1)

\* The output so far, and a step's effect on it.
Stdout == [buffer |-> stdout_buffer, screen |-> screen]

Becomes(out) == stdout_buffer' = out.buffer /\ screen' = out.screen

NoOutput == UNCHANGED <<stdout_buffer, screen>>

----------------------------------------------------------------------------
(* Inputs *)

\* The exit status a parent process observes is the low eight bits of the value
\* handed to exit(): sys.exit(n) is observed as n modulo 256.
ExitStatusModulus == 256

\* A menu long enough for sys.exit's argument to pass the exit status range.
LongMenuEntries == ExitStatusModulus + 1

\* Local-flag words the terminal may have when the program starts.
InitialLflags == { {"ICANON", "ECHO", "ISIG"}, {"ICANON", "ISIG"}, {"ISIG"} }

\* The command line options -s and -m, each as the list of its comma separated
\* fields; the empty option string is the one empty field.
EmptyOption == << "" >>
StyleOptions ==
    { [cursor_style |-> <<"fg_red", "bold">>, highlight_style |-> <<"standout">>],
      [cursor_style |-> EmptyOption,          highlight_style |-> <<"underline">>],
      [cursor_style |-> <<"bogus">>,          highlight_style |-> <<"standout">>],
      [cursor_style |-> <<"bold", "blink">>,  highlight_style |-> <<"shiny">>],
      [cursor_style |-> EmptyOption,          highlight_style |-> <<"standout", "glow">>] }

\* A command line: "run" shows the menu, "version" carries -V, "usage" is a command
\* line argparse ends itself on (-h, an unknown option).
CommandLines(entry_counts) ==
    [ kind : {"run", "version", "usage"},
      entries : entry_counts,
      title : BOOLEAN,
      styles : StyleOptions,
      cycle : BOOLEAN ]

\* parse_arguments, lines 290-297: an option string becomes the tuple of its fields,
\* the empty string becomes None.
ParseStyleOption(option) == IF option # EmptyOption THEN Some(option) ELSE None

\* The arguments of TerminalMenu(...) that main() passes, lines 313-320.
ConstructorArguments(cl) ==
    [ kind |-> cl.kind,
      menu_entries |-> cl.entries,
      title |-> cl.title,
      menu_cursor_style |-> ParseStyleOption(cl.styles.cursor_style),
      menu_highlight_style |-> ParseStyleOption(cl.styles.highlight_style),
      cycle_cursor |-> cl.cycle ]

\* What a run starts from: the command line of main(), or, for a caller that uses the
\* class directly, the constructor's arguments.
StartFromMain(entry_counts) ==
    /\ via = "main"
    /\ args \in CommandLines(entry_counts)
    /\ pc = "parse_arguments"

StartFromCaller ==
    /\ via = "lib"
    /\ args \in {ConstructorArguments(cl) : cl \in {c \in CommandLines(0..MaxEntries) : c.kind = "run"}}
    /\ pc = "construct"

NoKey == [kind |-> "none", name |-> "", chars |-> <<>>]

InitRest ==
    /\ codename_to_terminal_code = None
    /\ terminal_code_to_codename = None
    /\ menu = None
    /\ selected_index = None
    /\ next_key = NoKey
    /\ exc = "none"
    /\ result = None
    /\ exit_code = None
    /\ tput_calls = 0
    /\ stdout_buffer = <<>>
    /\ screen = BlankScreen
    /\ raw_entered = FALSE
    /\ reset_runs = 0
    /\ clear_runs = 0
    /\ intr_active = FALSE
    /\ show_outcome = "none"
    /\ ended_by = "none"
    /\ index_before = None

\* The broad family: every kind of command line and caller, short menus.
InitShort ==
    /\ StartFromMain(0..MaxEntries) \/ StartFromCaller
    /\ term \in Terminals
    /\ term_attr \in InitialLflags
    /\ InitRest

\* The long menu: one command line whose entries outnumber the exit statuses.
InitLong ==
    /\ StartFromMain({LongMenuEntries})
    /\ args.kind = "run" /\ ~args.title /\ args.cycle
    /\ args.styles = [cursor_style |-> EmptyOption, highlight_style |-> <<"underline">>]
    /\ term = "xterm"
    /\ term_attr = {"ICANON", "ECHO", "ISIG"}
    /\ InitRest

Init == InitShort \/ InitLong

----------------------------------------------------------------------------
(* Exceptions and the end of the process *)

\* The program counter values inside show(), by region.
InitTermPcs == {"tcgetattr_old", "tcgetattr_new", "tcsetattr_new", "write_smkx", "write_civis"}
TryPcs == {"position_cursor", "read_key", "dispatch", "print_menu"}
ResetTermPcs == {"reset_tcsetattr", "write_cnorm", "write_rmkx"}
FinallyPcs == {"clear_menu"} \cup ResetTermPcs
ShowPcs == {"show"} \cup InitTermPcs \cup {"print_menu_initial"} \cup TryPcs \cup FinallyPcs
EndPcs == {"exited", "raised", "returned_to_caller"}

\* The exit status of an interpreter that ends on an exception nothing caught: 1,
\* or, for KeyboardInterrupt, the status of a process ended by SIGINT.
UncaughtExitStatus(e) == IF e = "KeyboardInterrupt" THEN {1, 130} ELSE {1}

\* sys.exit(n) as the parent process observes it.
SysExit(n) == n % ExitStatusModulus

\* An exception that no handler of the program catches: it ends main() (the process
\* exits) or reaches the caller of the class.
Propagate(e) ==
    /\ exc' = e
    /\ IF via = "main"
       THEN /\ pc' = "exited"
            /\ \E status \in UncaughtExitStatus(e) : exit_code' = Some(status)
       ELSE /\ pc' = "raised"
            /\ UNCHANGED exit_code

\* An exception raised at the current statement of show(), lines 201-234.  Inside the
\* try block a KeyboardInterrupt is handled by the except clause (selected_index =
\* None) and any other exception stays pending while the finally block runs.  Outside
\* the try block (in _init_term, in the first print_menu, in the finally block) no
\* handler and no finally clause is left: the exception leaves show() at once.
RaiseInShow(e) ==
    IF pc \in TryPcs
    THEN /\ pc' = "clear_menu"
         /\ clear_runs' = clear_runs + 1
         /\ index_before' = selected_index
         /\ IF e = "KeyboardInterrupt"
            THEN selected_index' = None /\ exc' = "none" /\ ended_by' = "interrupt"
            ELSE UNCHANGED selected_index /\ exc' = e /\ ended_by' = "error"
         /\ UNCHANGED <<exit_code, show_outcome>>
    ELSE /\ Propagate(e)
         /\ show_outcome' = "raised"
         /\ UNCHANGED <<selected_index, clear_runs, ended_by, index_before>>

----------------------------------------------------------------------------
(* main() *)

\* NoMenuEntries with the test of line 288 lost.
NoMenuEntries_TestLost(cl) == FALSE

\* parse_arguments, lines 288-289: "not args.print_version and not args.entries".
NoMenuEntries(cl) == cl.kind # "version" /\ cl.entries = 0

\* Lines 302-308: parse_arguments and main's two handlers around it.  argparse ends
\* the process itself on -h or a bad option (SystemExit, turned into exit status 0);
\* no entries without -V is NoMenuEntriesError (reported, exit status 0).
ParseArguments ==
    /\ NoOutput
    /\ pc = "parse_arguments"
    /\ IF args.kind = "usage" \/ NoMenuEntries(args)
       THEN /\ exc' = IF args.kind = "usage" THEN "SystemExit" ELSE "NoMenuEntriesError"
            /\ exit_code' = Some(SysExit(0))
            /\ pc' = "exited"
            /\ UNCHANGED args
       ELSE /\ args' = ConstructorArguments(args)
            /\ pc' = "print_version"
            /\ UNCHANGED <<exc, exit_code>>
    /\ UNCHANGED <<via, term, term_attr, codename_to_terminal_code, terminal_code_to_codename,
                   menu, selected_index, next_key, result, tput_calls,
                   raw_entered, reset_runs, clear_runs, intr_active, show_outcome, ended_by, index_before>>

\* Lines 309-311.
PrintVersion ==
    /\ NoOutput
    /\ pc = "print_version"
    /\ IF args.kind = "version"
       THEN exit_code' = Some(SysExit(0)) /\ pc' = "exited"
       ELSE pc' = "construct" /\ UNCHANGED exit_code
    /\ UNCHANGED <<via, args, term, term_attr, codename_to_terminal_code,
                   terminal_code_to_codename, menu, selected_index, next_key, exc, result, tput_calls,
                   raw_entered, reset_runs, clear_runs, intr_active, show_outcome, ended_by, index_before>>

\* Lines 324-328: the exit status for what show() returned.
ExitWithResult ==
    /\ NoOutput
    /\ pc = "returned" /\ via = "main"
    /\ exit_code' = IF result = None THEN Some(SysExit(0)) ELSE Some(SysExit(Val(result) + 1))
    /\ pc' = "exited"
    /\ UNCHANGED <<via, args, term, term_attr, codename_to_terminal_code,
                   terminal_code_to_codename, menu, selected_index, next_key, exc, result, tput_calls,
                   raw_entered, reset_runs, clear_runs, intr_active, show_outcome, ended_by, index_before>>

\* A caller of the class receives show()'s result.
ReturnToCaller ==
    /\ NoOutput
    /\ pc = "returned" /\ via = "lib"
    /\ pc' = "returned_to_caller"
    /\ UNCHANGED <<via, args, term, term_attr, codename_to_terminal_code,
                   terminal_code_to_codename, menu, selected_index, next_key, exc, result, tput_calls,
                   exit_code, raw_entered, reset_runs, clear_runs, intr_active, show_outcome, ended_by, index_before>>

----------------------------------------------------------------------------
(* TerminalMenu.__init__ *)

\* Lines 84-85: None becomes the empty tuple.
StyleTuple(style) == IF style # None THEN Val(style) ELSE <<>>

\* InvalidStyles without the loop over the cursor style.
InvalidStyles_HighlightStyleOnly(cursor_style, highlight_style) ==
    SelectSeq(highlight_style, LAMBDA style : style \notin DOMAIN codename_to_capname)

\* _check_for_valid_styles, lines 122-127: the styles outside the vocabulary, those of
\* the cursor style first.
InvalidStyles(cursor_style, highlight_style) ==
    SelectSeq(cursor_style \o highlight_style, LAMBDA style : style \notin DOMAIN codename_to_capname)

\* Lines 71-90, with main's handler for InvalidStyleError (lines 321-323).  The styles
\* are checked first; then the capability maps are built unless they exist.
Construct ==
    /\ NoOutput
    /\ pc = "construct"
    /\ LET cursor_style == StyleTuple(args.menu_cursor_style)
           highlight_style == StyleTuple(args.menu_highlight_style)
           invalid == InvalidStyles(cursor_style, highlight_style) # <<>>
           built == TerminalCodesBuilt(codename_to_terminal_code)
           raised == IF invalid THEN "InvalidStyleError"
                     ELSE IF built THEN "none"
                     ELSE InitTerminalCodesRaises(term)
       IN  /\ tput_calls' = IF invalid \/ built THEN 0 ELSE TputCalls(term)
           /\ IF raised = "none"
              THEN /\ menu' = Some([ menu_entries |-> args.menu_entries,
                                     title |-> args.title,
                                     menu_cursor_style |-> cursor_style,
                                     menu_highlight_style |-> highlight_style,
                                     cycle_cursor |-> args.cycle_cursor,
                                     old_term |-> None,
                                     new_term |-> None ])
                   /\ IF built
                      THEN UNCHANGED <<codename_to_terminal_code, terminal_code_to_codename>>
                      ELSE /\ codename_to_terminal_code' = BuildCodenameToTerminalCode(term)
                           /\ terminal_code_to_codename' =
                                  BuildTerminalCodeToCodename(BuildCodenameToTerminalCode(term))
                   /\ pc' = "show"
                   /\ UNCHANGED <<exc, exit_code>>
              ELSE /\ IF raised = "InvalidStyleError" /\ via = "main"
                      THEN exc' = raised /\ exit_code' = Some(SysExit(0)) /\ pc' = "exited"
                      ELSE Propagate(raised)
                   /\ UNCHANGED <<menu, codename_to_terminal_code, terminal_code_to_codename>>
    /\ UNCHANGED <<via, args, term, term_attr, selected_index, next_key, result,
                   raw_entered, reset_runs, clear_runs, intr_active, show_outcome, ended_by, index_before>>

----------------------------------------------------------------------------
(* The key decoder *)

\* Chunks os.read may return: the arrow keys of application mode and of normal mode,
\* line feed, escape, carriage return, letters in both cases, a chunk of two letters,
\* end of input, and a character outside ASCII (UTF-8 encoded).
Chunks ==
    { Esc(<<79, 65>>), Esc(<<79, 66>>), Esc(<<91, 65>>), Esc(<<91, 66>>),
      <<LF>>, <<ESC>>, <<13>>,
      <<107>>, <<75>>, <<106>>, <<74>>, <<120>>, <<81>>,
      <<85, 80>>, <<>>, <<195, 164>> }

\* bytes.decode("ascii") succeeds when every byte is below 128.
IsAscii(chunk) == \A i \in DOMAIN chunk : chunk[i] < 128

\* str.lower() on ASCII text.
lower(code) == [i \in DOMAIN code |-> IF code[i] \in 65..90 THEN code[i] + 32 ELSE code[i]]

\* _read_next_key, lines 153-158, on the decoded chunk: the codename of a chunk the
\* inverse map holds, otherwise the chunk itself, in lower case if asked.
read_next_key(code, ignore_case) ==
    IF code \in DOMAIN terminal_code_to_codename
    THEN [kind |-> "codename", name |-> terminal_code_to_codename[code], chars |-> <<>>]
    ELSE [kind |-> "chars", name |-> "", chars |-> IF ignore_case THEN lower(code) ELSE code]

\* The code points of the string literals that show() compares next_key with.
Literal(text) ==
    CASE text = "up" -> <<117, 112>>
      [] text = "k" -> <<107>>
      [] text = "down" -> <<100, 111, 119, 110>>
      [] text = "j" -> <<106>>
      [] text = "enter" -> <<101, 110, 116, 101, 114>>
      [] text = "escape" -> <<101, 115, 99, 97, 112, 101>>

\* next_key == text, for a key that is a codename or the text of a chunk.
KeyEquals(key, text) ==
    \/ key.kind = "codename" /\ key.name = text
    \/ key.kind = "chars" /\ key.chars = Literal(text)

\* next_key in (...), lines 209, 216, 223 and 225.
IsUp(key) == KeyEquals(key, "up") \/ KeyEquals(key, "k")
IsDown(key) == KeyEquals(key, "down") \/ KeyEquals(key, "j")
IsEnter(key) == KeyEquals(key, "enter")
IsEscape(key) == KeyEquals(key, "escape")

----------------------------------------------------------------------------
(* TerminalMenu.show() *)

Menu == Val(menu)
N == Menu.menu_entries

\* IndexAfterUp with the cycle_cursor test lost: the index is always clamped.
IndexAfterUp_NeverWraps(index, n, cycle_cursor) ==
    IF index - 1 < 0 THEN 0 ELSE index - 1

\* Lines 210-215.
IndexAfterUp(index, n, cycle_cursor) ==
    IF index - 1 < 0
    THEN IF cycle_cursor THEN n - 1 ELSE 0
    ELSE index - 1

\* IndexAfterDown with > for >= in the test of line 218.
IndexAfterDown_OffByOne(index, n, cycle_cursor) ==
    IF index + 1 > n
    THEN IF cycle_cursor THEN 0 ELSE n - 1
    ELSE index + 1

\* IndexAfterDown with the cycle_cursor test lost: the index always wraps.
IndexAfterDown_AlwaysWraps(index, n, cycle_cursor) ==
    IF index + 1 >= n THEN 0 ELSE index + 1

\* Lines 217-222.
IndexAfterDown(index, n, cycle_cursor) ==
    IF index + 1 >= n
    THEN IF cycle_cursor THEN 0 ELSE n - 1
    ELSE index + 1

\* EntryWrites without the write of line 171, which turns the highlight off after
\* the selected entry.
EntryWrites_AttributesNotReset(i, index) ==
    << Text(<<Spaces(Len(MenuCursor))>>) >>
    \o (IF i = index
        THEN [k \in DOMAIN Menu.menu_highlight_style |->
                 Text(<<Code(Menu.menu_highlight_style[k])>>)]
        ELSE << >>)
    \o << Text(<<EntryText(i)>>) >>
    \o (IF i < N - 1 THEN << Text(<< <<LF>> >>) >> ELSE << >>)

\* print_menu, lines 165-173: the texts written for entry i.
EntryWrites(i, index) ==
    << Text(<<Spaces(Len(MenuCursor))>>) >>
    \o (IF i = index
        THEN [k \in DOMAIN Menu.menu_highlight_style |->
                 Text(<<Code(Menu.menu_highlight_style[k])>>)]
        ELSE << >>)
    \o << Text(<<EntryText(i)>>) >>
    \o (IF i = index THEN << Text(<<Code("reset_attributes")>>) >> ELSE << >>)
    \o (IF i < N - 1 THEN << Text(<< <<LF>> >>) >> ELSE << >>)

\* print_menu, the loop of lines 164-173 over the entries lo..hi.  (The test on out
\* is there for the same reason as the one in DisplayRange.)
RECURSIVE PrintEntries(_, _, _, _)
PrintEntries(out, lo, hi, index) ==
    IF out.screen.row < 0 \/ lo > hi THEN out
    ELSE IF lo = hi THEN WriteAll(out, EntryWrites(lo, index), 1)
    ELSE LET mid == (lo + hi) \div 2
         IN  PrintEntries(PrintEntries(out, lo, mid, index), mid + 1, hi, index)

\* print_menu(selected_index, with_title), lines 161-174.  print() writes the title
\* and then the line feed.
print_menu(out, index, with_title) ==
    LET titled == IF Menu.title /\ with_title
                  THEN WriteAll(out, << Text(<<TitleText>>), Text(<< <<LF>> >>) >>, 1)
                  ELSE out
    IN  Write(PrintEntries(titled, 0, N - 1, index),
              Text(<< <<CR>> >>) \o Times(N - 1, <<Code("cursor_up")>>))

\* position_cursor(selected_index), lines 184-199: the texts it writes.
PositionCursorWrites(index) ==
    << Times(N - 1, <<Spaces(Len(MenuCursor)), <<CR>>, Code("cursor_down")>>)
           \o Text(<<Spaces(Len(MenuCursor)), <<CR>>>>),
       Times(N - 1, <<Code("cursor_up")>>),
       Times(index, <<Code("cursor_down")>>) >>
    \o [k \in DOMAIN Menu.menu_cursor_style |-> Text(<<Code(Menu.menu_cursor_style[k])>>)]
    \o << Text(<<MenuCursor>>),
          Text(<<Code("reset_attributes"), <<CR>>>>),
          Times(index, <<Code("cursor_up")>>) >>

\* clear_menu, lines 176-182.
clear_menu(out) ==
    LET titled == IF Menu.title
                  THEN Write(out, Text(<<Code("cursor_up"), Code("delete_line")>>))
                  ELSE out
    IN  Flush(Write(titled, Times(N, <<Code("delete_line")>>)))

\* What a step of show() leaves alone unless it says otherwise.
ShowFrame ==
    UNCHANGED <<via, args, term, codename_to_terminal_code, terminal_code_to_codename, tput_calls>>

\* Lines 201-202.
ShowBegin ==
    /\ NoOutput
    /\ pc = "show"
    /\ selected_index' = Some(0)
    /\ pc' = "tcgetattr_old"
    /\ ShowFrame
    /\ UNCHANGED <<term_attr, menu, next_key, exc, result, exit_code,
                   raw_entered, reset_runs, clear_runs, intr_active, show_outcome, ended_by, index_before>>

\* _init_term, line 136: the snapshot.
TcgetattrOld ==
    /\ NoOutput
    /\ pc = "tcgetattr_old"
    /\ menu' = Some([Menu EXCEPT !.old_term = Some(term_attr)])
    /\ pc' = "tcgetattr_new"
    /\ ShowFrame
    /\ UNCHANGED <<term_attr, selected_index, next_key, exc, result, exit_code,
                   raw_entered, reset_runs, clear_runs, intr_active, show_outcome, ended_by, index_before>>

\* _init_term, lines 137-138: a second copy, with ICANON and ECHO cleared.
TcgetattrNew ==
    /\ NoOutput
    /\ pc = "tcgetattr_new"
    /\ menu' = Some([Menu EXCEPT !.new_term = Some(term_attr \ {"ICANON", "ECHO"})])
    /\ pc' = "tcsetattr_new"
    /\ ShowFrame
    /\ UNCHANGED <<term_attr, selected_index, next_key, exc, result, exit_code,
                   raw_entered, reset_runs, clear_runs, intr_active, show_outcome, ended_by, index_before>>

\* _init_term, line 139.
TcsetattrNew ==
    /\ NoOutput
    /\ pc = "tcsetattr_new"
    /\ term_attr' = Val(Menu.new_term)
    /\ raw_entered' = TRUE
    /\ pc' = "write_smkx"
    /\ ShowFrame
    /\ UNCHANGED <<menu, selected_index, next_key, exc, result, exit_code,
                   reset_runs, clear_runs, intr_active, show_outcome, ended_by, index_before>>

\* A statement of show() that only writes to the terminal: lines 141 and 142 of
\* _init_term, the first print_menu (204), position_cursor (207), and line 148 of
\* _reset_term.
WriteStep(from, to, out) ==
    /\ pc = from
    /\ pc' = to
    /\ Becomes(out)
    /\ ShowFrame
    /\ UNCHANGED <<term_attr, menu, selected_index, next_key, exc, result, exit_code,
                   raw_entered, reset_runs, clear_runs, intr_active, show_outcome, ended_by, index_before>>

WriteEnterApplicationMode ==
    WriteStep("write_smkx", "write_civis", Write(Stdout, Text(<<Code("enter_application_mode")>>)))
WriteCursorInvisible ==
    WriteStep("write_civis", "print_menu_initial", Write(Stdout, Text(<<Code("cursor_invisible")>>)))
PrintMenuInitial ==
    WriteStep("print_menu_initial", "position_cursor", print_menu(Stdout, Val(selected_index), TRUE))
PositionCursor ==
    WriteStep("position_cursor", "read_key",
              WriteAll(Stdout, PositionCursorWrites(Val(selected_index)), 1))
WriteCursorVisible ==
    WriteStep("write_cnorm", "write_rmkx", Write(Stdout, Text(<<Code("cursor_visible")>>)))

\* Line 228: the menu is printed again, without its title.
PrintMenu ==
    /\ pc = "print_menu"
    /\ pc' = "position_cursor"
    /\ index_before' = None
    /\ Becomes(print_menu(Stdout, Val(selected_index), FALSE))
    /\ ShowFrame
    /\ UNCHANGED <<term_attr, menu, selected_index, next_key, exc, result, exit_code,
                   raw_entered, reset_runs, clear_runs, intr_active, show_outcome, ended_by>>

\* Line 208: os.read of one chunk, decoded as ASCII (UnicodeDecodeError otherwise) and
\* looked up.
ReadNextKey ==
    /\ NoOutput
    /\ pc = "read_key"
    /\ \E chunk \in Chunks :
          IF IsAscii(chunk)
          THEN /\ next_key' = read_next_key(chunk, TRUE)
               /\ pc' = "dispatch"
               /\ UNCHANGED <<selected_index, exc, exit_code, clear_runs, show_outcome,
                              ended_by, index_before>>
          ELSE /\ RaiseInShow("UnicodeDecodeError")
               /\ UNCHANGED next_key
    /\ ShowFrame
    /\ UNCHANGED <<term_attr, menu, result, raw_entered, reset_runs, intr_active>>

\* SelectionAfter with "selected_index = None" in the branch of Enter as well.
SelectionAfter_EnterCancels(key, index, n, cycle_cursor) ==
    IF IsUp(key) THEN Some(IndexAfterUp(index, n, cycle_cursor))
    ELSE IF IsDown(key) THEN Some(IndexAfterDown(index, n, cycle_cursor))
    ELSE IF IsEnter(key) THEN None
    ELSE IF IsEscape(key) THEN None
    ELSE Some(index)

\* SelectionAfter without the "selected_index = None" of line 226.
SelectionAfter_EscapeKeeps(key, index, n, cycle_cursor) ==
    IF IsUp(key) THEN Some(IndexAfterUp(index, n, cycle_cursor))
    ELSE IF IsDown(key) THEN Some(IndexAfterDown(index, n, cycle_cursor))
    ELSE Some(index)

\* SelectionAfter with a final else branch that moves to the first entry.
SelectionAfter_OtherKeyResets(key, index, n, cycle_cursor) ==
    IF IsUp(key) THEN Some(IndexAfterUp(index, n, cycle_cursor))
    ELSE IF IsDown(key) THEN Some(IndexAfterDown(index, n, cycle_cursor))
    ELSE IF IsEnter(key) THEN Some(index)
    ELSE IF IsEscape(key) THEN None
    ELSE Some(0)

\* Lines 209-227, the value of selected_index after the key: Up and Down move it,
\* Escape makes it None, Enter and every other key leave it.
SelectionAfter(key, index, n, cycle_cursor) ==
    IF IsUp(key) THEN Some(IndexAfterUp(index, n, cycle_cursor))
    ELSE IF IsDown(key) THEN Some(IndexAfterDown(index, n, cycle_cursor))
    ELSE IF IsEnter(key) THEN Some(index)
    ELSE IF IsEscape(key) THEN None
    ELSE Some(index)

\* Lines 223-227: the keys whose branch ends in break.
LeavesLoop(key) == ~IsUp(key) /\ ~IsDown(key) /\ (IsEnter(key) \/ IsEscape(key))

\* Lines 209-227: one key is dispatched.  After a break the finally block is next,
\* otherwise the print_menu of line 228.
HandleKey ==
    /\ NoOutput
    /\ pc = "dispatch"
    /\ selected_index' = SelectionAfter(next_key, Val(selected_index), N, Menu.cycle_cursor)
    /\ IF LeavesLoop(next_key)
       THEN /\ pc' = "clear_menu"
            /\ clear_runs' = clear_runs + 1
            /\ ended_by' = "key"
       ELSE /\ pc' = "print_menu"
            /\ UNCHANGED <<clear_runs, ended_by>>
    /\ index_before' = selected_index
    /\ ShowFrame
    /\ UNCHANGED <<term_attr, menu, next_key, exc, result, exit_code,
                   raw_entered, reset_runs, intr_active, show_outcome>>

\* Line 232: clear_menu; _reset_term is called next.
ClearMenu ==
    /\ pc = "clear_menu"
    /\ pc' = "reset_tcsetattr"
    /\ reset_runs' = reset_runs + 1
    /\ Becomes(clear_menu(Stdout))
    /\ ShowFrame
    /\ UNCHANGED <<term_attr, menu, selected_index, next_key, exc, result, exit_code,
                   raw_entered, clear_runs, intr_active, show_outcome, ended_by, index_before>>

\* _reset_term, line 147: the snapshot is applied.
TcsetattrOld ==
    /\ NoOutput
    /\ pc = "reset_tcsetattr"
    /\ term_attr' = Val(Menu.old_term)
    /\ pc' = "write_cnorm"
    /\ ShowFrame
    /\ UNCHANGED <<menu, selected_index, next_key, exc, result, exit_code,
                   raw_entered, reset_runs, clear_runs, intr_active, show_outcome, ended_by, index_before>>

\* _reset_term, line 149, and the end of show(): an exception pending from the try
\* block goes on, otherwise line 234 returns selected_index.
WriteExitApplicationMode ==
    /\ pc = "write_rmkx"
    /\ Becomes(Write(Stdout, Text(<<Code("exit_application_mode")>>)))
    /\ IF exc # "none"
       THEN /\ Propagate(exc)
            /\ show_outcome' = "raised"
            /\ UNCHANGED result
       ELSE /\ result' = selected_index
            /\ show_outcome' = "returned"
            /\ pc' = "returned"
            /\ UNCHANGED <<exc, exit_code>>
    /\ ShowFrame
    /\ UNCHANGED <<term_attr, menu, selected_index, next_key,
                   raw_entered, reset_runs, clear_runs, intr_active, ended_by, index_before>>

----------------------------------------------------------------------------
(* The environment: interrupts and failing system calls *)

\* The statements that call into the operating system.
IoPcs == ShowPcs \ {"show", "dispatch"}

\* A call into the operating system fails: termios.error from tcgetattr/tcsetattr,
\* OSError from a write to the terminal or the read of a key.
IoFailure ==
    /\ NoOutput
    /\ pc \in IoPcs
    /\ RaiseInShow("OSError")
    /\ ShowFrame
    /\ UNCHANGED <<term_attr, menu, next_key, result, raw_entered, reset_runs, intr_active>>

\* SIGINT arrives: Python raises KeyboardInterrupt at the statement being executed.
Interrupt ==
    /\ NoOutput
    /\ pc \notin EndPcs
    /\ intr_active' = (intr_active \/ (raw_entered /\ pc \in ShowPcs))
    /\ IF pc \in ShowPcs
       THEN RaiseInShow("KeyboardInterrupt")
       ELSE /\ Propagate("KeyboardInterrupt")
            /\ UNCHANGED <<selected_index, clear_runs, show_outcome, ended_by, index_before>>
    /\ ShowFrame
    /\ UNCHANGED <<term_attr, menu, next_key, result, raw_entered, reset_runs>>

----------------------------------------------------------------------------
Next ==
    \/ ParseArguments
    \/ PrintVersion
    \/ Construct
    \/ ShowBegin
    \/ TcgetattrOld
    \/ TcgetattrNew
    \/ TcsetattrNew
    \/ WriteEnterApplicationMode
    \/ WriteCursorInvisible
    \/ PrintMenuInitial
    \/ PositionCursor
    \/ ReadNextKey
    \/ HandleKey
    \/ PrintMenu
    \/ ClearMenu
    \/ TcsetattrOld
    \/ WriteCursorVisible
    \/ WriteExitApplicationMode
    \/ ExitWithResult
    \/ ReturnToCaller
    \/ IoFailure
    \/ Interrupt

Spec == Init /\ [][Next]_vars

----------------------------------------------------------------------------
(* The capability runs: a program that uses the class constructs menus one after *)
(* the other, on any of the terminal types, and shows them.                      *)

\* The constructor arguments of the capability runs: two entries, every style option.
CapabilityArguments ==
    {ConstructorArguments(cl) : cl \in {c \in CommandLines({2}) :
                                           c.kind = "run" /\ ~c.title /\ c.cycle}}

InitCapabilities ==
    /\ via = "lib"
    /\ args \in CapabilityArguments
    /\ pc = "construct"
    /\ term \in CapabilityTerminals
    /\ term_attr = {"ICANON", "ECHO", "ISIG"}
    /\ InitRest

\* The caller constructs a further TerminalMenu (lines 71-90 run again): after a
\* construction that raised, instead of showing the menu it has, or after show().
\* The class attributes stay; everything that belongs to the earlier object starts
\* afresh.
ConstructAnother ==
    /\ NoOutput
    /\ via = "lib"
    /\ pc \in {"show", "raised", "returned_to_caller"}
    /\ pc' = "construct"
    /\ args' \in CapabilityArguments
    /\ menu' = None
    /\ selected_index' = None
    /\ next_key' = NoKey
    /\ exc' = "none"
    /\ result' = None
    /\ raw_entered' = FALSE
    /\ reset_runs' = 0
    /\ clear_runs' = 0
    /\ intr_active' = FALSE
    /\ show_outcome' = "none"
    /\ ended_by' = "none"
    /\ index_before' = None
    /\ UNCHANGED <<via, term, term_attr, codename_to_terminal_code, terminal_code_to_codename,
                   exit_code, tput_calls>>

\* Between two constructions the environment's TERM changes: tput (line 112) answers
\* for another terminal type from then on.
ChangeTerminal ==
    /\ NoOutput
    /\ via = "lib"
    /\ pc = "construct"
    /\ term' \in Terminals \ {term}
    /\ UNCHANGED <<via, args, term_attr, codename_to_terminal_code, terminal_code_to_codename,
                   menu, pc, selected_index, next_key, exc, result, exit_code, tput_calls,
                   raw_entered, reset_runs, clear_runs, intr_active, show_outcome, ended_by,
                   index_before>>

NextCapabilities ==
    \/ Construct
    \/ ConstructAnother
    \/ ChangeTerminal
    \/ ShowBegin
    \/ TcgetattrOld
    \/ TcgetattrNew
    \/ TcsetattrNew
    \/ WriteEnterApplicationMode
    \/ WriteCursorInvisible
    \/ PrintMenuInitial
    \/ PositionCursor
    \/ ReadNextKey
    \/ HandleKey
    \/ PrintMenu
    \/ ClearMenu
    \/ TcsetattrOld
    \/ WriteCursorVisible
    \/ WriteExitApplicationMode
    \/ ReturnToCaller

SpecCapabilities == InitCapabilities /\ [][NextCapabilities]_vars

----------------------------------------------------------------------------
(* Properties *)

\* show() has been called on a menu of at least one entry, has taken the snapshot of
\* line 136, and has ended.
SessionEnded == menu # None /\ N >= 1 /\ Menu.old_term # None /\ show_outcome # "none"

\* The session is Active: selected_index has been set and the loop has not ended.
ActivePcs == InitTermPcs \cup {"print_menu_initial"} \cup TryPcs

\* The key is the decoded event of that name.
IsEvent(key, name) == key.kind = "codename" /\ key.name = name

\* The step is HandleKey: a key is dispatched (an interrupt at the same statement
\* is told apart by ended_by'); the index before it is Val(selected_index).
KeyDispatched == pc = "dispatch" /\ pc' # pc /\ ended_by' # "interrupt"

\* C1: after a session that show() started has ended, by whatever path, the
\* terminal's attribute configuration equals the one _init_term captured.
C1_AttributesRestoredAfterSession ==
    SessionEnded => term_attr = Val(Menu.old_term)

\* C2: on every path out of a session, also when _init_term fails after it has taken
\* the snapshot, _reset_term has run exactly once.
C2_ResetTermRunsExactlyOnce ==
    SessionEnded => reset_runs = 1

\* C3: an interrupt that arrives after raw mode has been entered and before show()
\* has returned ends the session in Cancelled: show() returns None, and clear_menu and
\* _reset_term have run and the attributes are restored.
C3_InterruptEndsInCancelled ==
    (intr_active /\ N >= 1 /\ show_outcome # "none") =>
        /\ show_outcome = "returned"
        /\ result = None
        /\ clear_runs = 1
        /\ reset_runs = 1
        /\ term_attr = Val(Menu.old_term)

\* C4: with at least one entry, whenever the session is Active the highlighted index
\* is an integer in [0, N), whatever the keys and the cycling setting.
C4_IndexInRangeWhileActive ==
    (pc \in ActivePcs /\ N >= 1) =>
        /\ selected_index # None
        /\ Val(selected_index) \in 0..(N - 1)

\* A Down at the last entry has just been dispatched with cycling on, N >= 2.
C4_Witness ==
    /\ pc = "print_menu" /\ N >= 2 /\ Menu.cycle_cursor
    /\ IsDown(next_key)
    /\ index_before = Some(N - 1)
    /\ selected_index = Some(0)

\* C5: an Enter event dispatched at index i ends the loop (no statement of the loop
\* follows it), selected_index stays i during the clean-up, and the value show()
\* returns is i.
C5_EnterSelectsCurrentIndex ==
    /\ pc \in {"print_menu", "position_cursor", "read_key"} => ~IsEvent(next_key, "enter")
    /\ (ended_by = "key" /\ IsEvent(next_key, "enter")) =>
          /\ index_before # None
          /\ pc \in FinallyPcs => selected_index = index_before
          /\ show_outcome = "returned" => result = index_before

\* show() has returned an index other than 0 after Enter, reached by navigation.
C5_Witness ==
    /\ show_outcome = "returned" /\ ended_by = "key" /\ IsEvent(next_key, "enter")
    /\ result # None /\ Val(result) >= 1

\* C6: an Escape event dispatched at any index ends the loop, no further key is read,
\* selected_index is None during the clean-up, and show() returns None.
C6_EscapeCancels ==
    /\ pc \in {"print_menu", "position_cursor", "read_key"} => ~IsEvent(next_key, "escape")
    /\ (ended_by = "key" /\ IsEvent(next_key, "escape")) =>
          /\ pc \in FinallyPcs => selected_index = None
          /\ show_outcome = "returned" => result = None

\* show() has returned None after Escape at an index other than 0.
C6_Witness ==
    /\ show_outcome = "returned" /\ ended_by = "key" /\ IsEvent(next_key, "escape")
    /\ index_before # None /\ Val(index_before) >= 1
    /\ result = None

\* C7: with cycling on and N >= 1 entries, Up at index 0 gives N-1 and at any other
\* index gives index-1; Down at index N-1 gives 0 and at any other index index+1; the
\* loop goes on.
C7_CyclingWrapsAround ==
    [][(KeyDispatched /\ N >= 1 /\ Menu.cycle_cursor) =>
          LET index == Val(selected_index)
          IN  /\ IsUp(next_key) =>
                    /\ pc' = "print_menu"
                    /\ selected_index' = Some(IF index = 0 THEN N - 1 ELSE index - 1)
              /\ IsDown(next_key) =>
                    /\ pc' = "print_menu"
                    /\ selected_index' = Some(IF index = N - 1 THEN 0 ELSE index + 1)]_vars

\* An Up at index 0 has just wrapped to the last of at least three entries.
C7_Witness ==
    /\ pc = "print_menu" /\ N >= 3 /\ Menu.cycle_cursor
    /\ IsUp(next_key)
    /\ index_before = Some(0)
    /\ selected_index = Some(N - 1)

\* C8: with cycling off and N >= 1 entries, Up at index 0 leaves the index 0 and Down
\* at index N-1 leaves it N-1, at every press.
C8_ClampingAtTheEnds ==
    [][(KeyDispatched /\ N >= 1 /\ ~Menu.cycle_cursor) =>
          LET index == Val(selected_index)
          IN  /\ (IsUp(next_key) /\ index = 0) =>
                    pc' = "print_menu" /\ selected_index' = Some(0)
              /\ (IsDown(next_key) /\ index = N - 1) =>
                    pc' = "print_menu" /\ selected_index' = Some(N - 1)]_vars

\* A Down at the last of at least two entries has just been clamped.
C8_Witness ==
    /\ pc = "print_menu" /\ N >= 2 /\ ~Menu.cycle_cursor
    /\ IsDown(next_key)
    /\ index_before = Some(N - 1)
    /\ selected_index = Some(N - 1)

\* C9 as stated: every decoded key other than the events Up, Down, Enter and Escape,
\* so every literal character key and every other codename, changes neither the index
\* nor the Active status.
C9_LiteralAndOtherKeysIgnored ==
    [][(KeyDispatched /\ N >= 1
          /\ \A name \in {"up", "down", "enter", "escape"} : ~IsEvent(next_key, name)) =>
          pc' = "print_menu" /\ selected_index' = selected_index]_vars

\* C9, amended: every decoded key that equals none of "up", "k", "down", "j", "enter",
\* "escape" (a literal chunk compared after case folding) changes neither the index
\* nor the Active status.
C9_KeysOutsideTheSixAreIgnored ==
    [][(KeyDispatched /\ \A text \in {"up", "k", "down", "j", "enter", "escape"} :
                             ~KeyEquals(next_key, text)) =>
          pc' = "print_menu" /\ selected_index' = selected_index]_vars

\* A literal key outside the six, or a codename other than the four events, has just
\* been dispatched at an index other than 0 and the index is the same.
C9_Witness ==
    /\ pc = "print_menu"
    /\ \/ next_key.kind = "chars" /\ next_key.chars = <<120>>
       \/ IsEvent(next_key, "cursor_up")
    /\ index_before # None /\ Val(index_before) >= 1
    /\ selected_index = index_before

\* C10: once main() has passed show()'s result to sys.exit, the exit status the parent
\* observes is index + 1 for a selected index and 0 for a cancellation.
C10_ExitCodeIsIndexPlusOne ==
    (pc = "exited" /\ show_outcome = "returned" /\ exc = "none") =>
        exit_code = Some(IF result = None THEN 0 ELSE Val(result) + 1)

\* The styles and the number of entries the run asks for, on the command line or in
\* the constructor's arguments.
RequestedStyles ==
    IF "styles" \in DOMAIN args
    THEN StyleTuple(ParseStyleOption(args.styles.cursor_style))
             \o StyleTuple(ParseStyleOption(args.styles.highlight_style))
    ELSE StyleTuple(args.menu_cursor_style) \o StyleTuple(args.menu_highlight_style)

RequestedEntries == IF "entries" \in DOMAIN args THEN args.entries ELSE args.menu_entries

SomeStyleIsUnknown == \E i \in DOMAIN RequestedStyles : RequestedStyles[i] \notin Range(codenames)

\* No menu object exists, no terminal attribute was read or changed, nothing of
\* show() has run.
NoSessionEntered ==
    /\ menu = None
    /\ ~raw_entered
    /\ pc \notin ShowPcs \cup {"returned", "returned_to_caller"}
    /\ show_outcome = "none"
    /\ reset_runs = 0 /\ clear_runs = 0

\* C11: when a requested cursor or highlight style is outside the codename set, the
\* construction ends in InvalidStyleError (whatever the terminal) and no session is
\* ever entered: no menu, no attribute read or changed, nothing rendered; through
\* main() the process ends with exit status 0.
C11_InvalidStyleEndsBeforeAnySession ==
    SomeStyleIsUnknown =>
        /\ NoSessionEntered
        /\ pc = "raised" => exc \in {"InvalidStyleError", "KeyboardInterrupt"}
        /\ (via = "main" /\ pc = "exited" /\ args.kind = "run" /\ RequestedEntries >= 1) =>
               exc \in {"InvalidStyleError", "KeyboardInterrupt"}
        /\ (via = "main" /\ exc = "InvalidStyleError") => pc = "exited" /\ exit_code = Some(0)

\* main() has ended with exit status 0 on InvalidStyleError, for a request that is
\* otherwise complete, on a terminal type the capability database does not hold.
C11_Witness ==
    /\ via = "main" /\ pc = "exited" /\ exc = "InvalidStyleError" /\ exit_code = Some(0)
    /\ RequestedEntries >= 1 /\ term = "unknown"
    /\ SomeStyleIsUnknown

\* C12: through main(), show() is never started with no entries: without entries and
\* without -V the run ends in NoMenuEntriesError with exit status 0 and no session is
\* entered, and with -V the run ends with exit status 0 and no menu is constructed.
C12_MainNeverShowsAnEmptyMenu ==
    via = "main" =>
        /\ pc \in ShowPcs => N >= 1
        /\ RequestedEntries = 0 => NoSessionEntered
        /\ (RequestedEntries = 0 /\ args.kind = "run" /\ pc = "exited") =>
               \/ exc = "NoMenuEntriesError" /\ exit_code = Some(0)
               \/ exc = "KeyboardInterrupt"
        /\ args.kind = "version" =>
               /\ NoSessionEntered
               /\ pc = "exited" =>
                      \/ exc = "none" /\ exit_code = Some(0)
                      \/ exc = "KeyboardInterrupt"

\* main() has ended with exit status 0 on NoMenuEntriesError.
C12_Witness ==
    /\ via = "main" /\ pc = "exited" /\ args.kind = "run" /\ RequestedEntries = 0
    /\ exc = "NoMenuEntriesError" /\ exit_code = Some(0)

\* C13: once clear_menu has been started on the way out of the key loop, _reset_term
\* runs before show() returns or lets an exception go on.
C13_RestoreAlwaysFollowsClear ==
    (menu # None /\ N >= 1 /\ clear_runs >= 1 /\ show_outcome # "none") => reset_runs = 1

\* The step is a construction that finds no capability maps and whose styles are
\* valid, so that _init_terminal_codes builds them or raises.
BuildAttempted ==
    /\ pc = "construct" /\ pc' # pc
    /\ ~SomeStyleIsUnknown
    /\ codename_to_terminal_code = None

\* What the capability database holds for a codename: its sequence, or nothing.
DatabaseHolds(t, codename) == Tput(t, codename_to_capname[codename]).rc = 0
DatabaseSequence(t, codename) == Tput(t, codename_to_capname[codename]).out

\* The colour count the terminal reports.
ReportedColors(t) == int(Tput(t, "colors").out)

\* C14: for every codename, on the terminal whose database lacks just that
\* capability, the construction succeeds, the maps are built and the codename
\* resolves to the empty sequence.
C14_AbsentCapabilityResolvesToEmpty ==
    [][\A c \in Range(codenames) :
          (BuildAttempted /\ term = XtermWithout(c)) =>
              /\ pc' = "show"
              /\ codename_to_terminal_code' # None
              /\ codename_to_terminal_code'[c] = <<>>]_vars

\* C15 as stated: for every codename of the forward map, the reverse lookup of its
\* sequence returns that codename.
C15_ReverseLookupInvertsForwardMap ==
    codename_to_terminal_code # None =>
        \A c \in DOMAIN codename_to_terminal_code :
            terminal_code_to_codename[codename_to_terminal_code[c]] = c

\* C15, amended: the reverse map holds exactly the sequences of the forward map, and
\* the reverse lookup of a codename's sequence returns the last codename, in the
\* forward map's insertion order, that resolves to that sequence; so the round trip
\* returns the codename itself exactly when no later codename shares its sequence.
C15_ReverseLookupGivesLastCodenameOfSequence ==
    codename_to_terminal_code # None =>
        LET forward == codename_to_terminal_code
            reverse == terminal_code_to_codename
            order == codenames \o control_names
        IN  /\ DOMAIN forward = Range(order)
            /\ DOMAIN reverse = {forward[c] : c \in DOMAIN forward}
            /\ \A i \in DOMAIN order :
                   /\ forward[reverse[forward[order[i]]]] = forward[order[i]]
                   /\ reverse[forward[order[i]]] = order[i] <=>
                          \A k \in DOMAIN order : forward[order[k]] = forward[order[i]] => k <= i

\* The maps were built on a terminal with fewer than 8 colours and without italics:
\* the colour codenames and italics share the empty sequence, whose reverse lookup
\* gives italics, and cursor_down shares the line feed with enter.
C15_Witness ==
    /\ codename_to_terminal_code # None
    /\ codename_to_terminal_code["fg_red"] = <<>>
    /\ codename_to_terminal_code["bg_blue"] = <<>>
    /\ terminal_code_to_codename[<<>>] = "italics"
    /\ codename_to_terminal_code["cursor_down"] = <<LF>>
    /\ terminal_code_to_codename[<<LF>>] = "enter"
    /\ terminal_code_to_codename[codename_to_terminal_code["up"]] = "up"

\* C16: once a construction has built the capability maps, no step changes either
\* map, and every later construction with valid styles runs tput not once and
\* succeeds, whatever the terminal type has become.
C16_MapsAreBuiltAtMostOnce ==
    [][codename_to_terminal_code # None =>
          /\ codename_to_terminal_code' = codename_to_terminal_code
          /\ terminal_code_to_codename' = terminal_code_to_codename
          /\ (pc = "construct" /\ pc' # pc) => tput_calls' = 0
          /\ (pc = "construct" /\ pc' # pc /\ ~SomeStyleIsUnknown) =>
                 pc' = "show" /\ exc' = "none" /\ menu' # None]_vars

\* A menu has been constructed while the terminal type is one the database does not
\* hold, on maps that an earlier construction built from another terminal type.
C16_Witness ==
    /\ pc = "show" /\ menu # None /\ term = "unknown" /\ tput_calls = 0
    /\ codename_to_terminal_code # None
    /\ codename_to_terminal_code["colors"] = <<45, 49, LF>>

\* C17: when a construction builds the maps on a terminal that reports fewer than 8
\* colours, it succeeds and every fg_ and bg_ codename resolves to the empty sequence;
\* with 8 or more colours they resolve to the database's sequences; every other
\* codename resolves to the database's sequence, empty for an absent capability.
C17_ColorsNeedEightColors ==
    [][(BuildAttempted /\ ReportedColors(term).raised = "none" /\ DatabaseHolds(term, "colors")) =>
          LET few == ReportedColors(term).value < 8
              forward == codename_to_terminal_code'
          IN  /\ few => pc' = "show"
              /\ pc' = "show" =>
                    \A c \in Range(codenames) :
                        forward[c] = IF IsColorCodename(c) /\ few THEN <<>>
                                     ELSE IF DatabaseHolds(term, c) THEN DatabaseSequence(term, c)
                                     ELSE <<>>]_vars

\* The maps exist as a terminal of exactly 8 colours gives them: the colours have the
\* database's sequences.
C17_Witness ==
    /\ codename_to_terminal_code # None
    /\ codename_to_terminal_code["colors"] = <<56, LF>>
    /\ codename_to_terminal_code["fg_red"] = Esc(<<91, 51, 49, 109>>)
    /\ codename_to_terminal_code["bg_gray"] = Esc(<<91, 52, 55, 109>>)

\* C20: on whatever terminal the maps were built, a chunk that is a line feed decodes
\* to the codename enter and a chunk that is an escape character to the codename
\* escape, with and without case folding; so they are the Enter and the Escape of the
\* key loop.
C20_ControlCharactersWinCollisions ==
    terminal_code_to_codename # None =>
        \A ignore_case \in BOOLEAN :
            /\ IsEvent(read_next_key(<<LF>>, ignore_case), "enter")
            /\ IsEvent(read_next_key(<<ESC>>, ignore_case), "escape")
            /\ IsEnter(read_next_key(<<LF>>, ignore_case))
            /\ IsEscape(read_next_key(<<ESC>>, ignore_case))

\* On a terminal whose Down key and whose cursor_down are both the line feed, a chunk
\* has been decoded to enter and is about to be dispatched.
C20_Witness ==
    /\ pc = "dispatch" /\ IsEvent(next_key, "enter")
    /\ codename_to_terminal_code["down"] = <<LF>>
    /\ codename_to_terminal_code["cursor_down"] = <<LF>>

----------------------------------------------------------------------------
(* The painted frame *)

\* The display row of the first entry: the title, when there is one, is above it.
FirstEntryRow == IF Menu.title THEN 1 ELSE 0

\* The display row of the entry at the current index.
SelectedRow == FirstEntryRow + Val(selected_index)

\* The menu is on a display that holds all of it; a menu longer than the display
\* scrolls, which the program does not handle.
MenuFitsDisplay == menu # None /\ N >= 1 /\ FirstEntryRow + N <= ScreenRows

\* The program waits in os.read for a key (line 154).
BlocksForKey == pc = "read_key"

\* C18 as stated: whenever the program blocks for a key, and when the clear after
\* the key that leaves the loop starts, the terminal's cursor is on the row of the
\* first entry.
C18_CursorRestsOnFirstEntryRow ==
    (MenuFitsDisplay /\ (BlocksForKey \/ (pc = "clear_menu" /\ ended_by = "key")))
        => screen.row = FirstEntryRow

\* C19: whenever the program blocks for a key, the display shows the menu cursor on
\* exactly one row and the highlight on exactly one row, and both are the row of
\* the entry at the current index.
C19_OneCursorAndOneHighlightOnSelectedRow ==
    (MenuFitsDisplay /\ BlocksForKey) =>
        /\ screen.glyph_rows = {SelectedRow}
        /\ screen.highlighted_rows = {SelectedRow}

\* The program blocks for a key after a navigation key has moved the selection from
\* one entry to another and the menu has been printed again.
C19_Witness ==
    /\ MenuFitsDisplay
    /\ BlocksForKey
    /\ next_key # NoKey
    /\ Val(selected_index) >= 1
    /\ Val(selected_index) < N - 1
    /\ screen.glyph_rows = {SelectedRow}
    /\ screen.highlighted_rows = {SelectedRow}

====
